---- MODULE Spec2Model ----
(***************************************************************************)
(* ECTP frame codec (libectp.c): byte-order adapters, skipcount accessors, *)
(* message accessors, the frame sizer and the capacity-bounded frame       *)
(* builder.  Buffers are functions from 0-based byte indices to bytes, so  *)
(* that indices are those of the C code.  A store outside a buffer's       *)
(* domain extends the domain: an overrun is visible in the state.          *)
(***************************************************************************)
EXTENDS Integers, Sequences, FiniteSets, TLC

VARIABLES
    host,   \* byte order the library was compiled for: "LE" or "BE"
    args,   \* the arguments of ectp_build_frame
    b,      \* ectp_build_frame's locals, the caller's frame buffer, and what it touched
    op,     \* the last library call made on the frame
    prev,   \* the frame buffer before that call
    arg,    \* the 16-bit argument handed to the setters
    pos,    \* the message position handed to ectp_set_msg_type
    walk,   \* the number of ectp_inc_skipcount calls of the chain walk
    chk     \* arguments and results of the skipcount check and message lookup

vars == <<host, args, b, op, prev, arg, pos, walk, chk>>

---------------------------------------------------------------------------
\* Sizes, offsets and type codes of libectp.h.

ECTP_FRAME_HDR_SZ == 2
ECTP_FWDMSG_SZ == 8
ECTP_REPLYMSG_MINSZ == 4
ECTP_RPLYMSG == 1
ECTP_FWDMSG == 2
ETH_ALEN == 6

\* struct ectp_frame { hdr.skipcount; payload[] }
payload_off == ECTP_FRAME_HDR_SZ
\* struct ectp_message { hdr.func_code; union { fwd_msg.fwdaddr[6]; rply_msg { rcpt_num; data[] } } }
fwdaddr_off == 2
rcpt_num_off == 2
data_off == ECTP_REPLYMSG_MINSZ

\* widths of uint8_t and uint16_t.  unsigned int values (sizes, counts, the
\* skipcount plus one message size) stay far below 2^32 in every call modelled
\* here, so unsigned int arithmetic is exact integer arithmetic.
U8 == 2^8
U16 == 2^16

Byte == 0 .. (U8 - 1)

\* the value of a byte that was never initialised or lies outside its object
Garbage == -1

---------------------------------------------------------------------------
\* Memory.

Peek(buf, idx) == IF idx \in DOMAIN buf THEN buf[idx] ELSE Garbage

memcpy(dst, d, src, s, n) ==
    [x \in (DOMAIN dst) \cup (d .. (d + n - 1)) |->
        IF x \in d .. (d + n - 1) THEN Peek(src, s + (x - d)) ELSE dst[x]]

memset(buf, c, n) ==
    [x \in (DOMAIN buf) \cup (0 .. (n - 1)) |->
        IF x \in 0 .. (n - 1) THEN c ELSE buf[x]]

\* a uint16_t field assignment: the host's byte order decides the bytes in memory
StoreU16(buf, at, x) ==
    LET lo == x % U8
        hi == x \div U8
        two == [j \in 0 .. 1 |-> IF host = "LE" THEN (IF j = 0 THEN lo ELSE hi)
                                                ELSE (IF j = 0 THEN hi ELSE lo)]
    IN  memcpy(buf, at, two, 0, 2)

\* a uint16_t field read
LoadU16(buf, at) ==
    IF host = "LE" THEN Peek(buf, at) + U8 * Peek(buf, at + 1)
                   ELSE U8 * Peek(buf, at) + Peek(buf, at + 1)

RECURSIVE BitAnd(_, _)
BitAnd(x, y) ==
    IF x = 0 \/ y = 0 THEN 0
    ELSE (x % 2) * (y % 2) + 2 * BitAnd(x \div 2, y \div 2)

---------------------------------------------------------------------------
\* Endian adapter.

bswap_16(x) == (x % U8) * U8 + (x \div U8)

ectp_htons_std(i) == IF host = "LE" THEN bswap_16(i) ELSE i
ectp_htons(i) == IF host = "BE" THEN bswap_16(i) ELSE i

ectp_ntohs_noswap(i) == i
ectp_ntohs(i) == IF host = "BE" THEN bswap_16(i) ELSE i

---------------------------------------------------------------------------
\* Skipcount accessors.  f is the index of the frame's first byte.

ectp_get_skipcount(buf, f) == ectp_ntohs(LoadU16(buf, f))

ectp_set_skipcount(buf, f, skipcount) ==
    StoreU16(buf, f, ectp_htons(skipcount % U16))

ectp_skipc_basicchk_ok_wrongmask(skipcount, ectp_frme_len) ==
    IF BitAnd(skipcount, ECTP_FWDMSG_SZ) # 0 THEN FALSE
    ELSE IF skipcount >= ectp_frme_len THEN FALSE
    ELSE TRUE
ectp_skipc_basicchk_ok(skipcount, ectp_frme_len) ==
    IF BitAnd(skipcount, ECTP_FWDMSG_SZ - 1) # 0 THEN FALSE
    ELSE IF skipcount >= ectp_frme_len THEN FALSE
    ELSE TRUE

ectp_get_msg_ptr_nopayload(skipcount, f) == f + skipcount
ectp_get_msg_ptr(skipcount, f) == f + payload_off + skipcount

ectp_get_curr_msg_ptr(buf, f) == ectp_get_msg_ptr(ectp_get_skipcount(buf, f), f)

ectp_inc_skipcount_hdrsz(buf, f) ==
    ectp_set_skipcount(buf, f, ectp_get_skipcount(buf, f) + ECTP_FRAME_HDR_SZ)
ectp_inc_skipcount(buf, f) ==
    ectp_set_skipcount(buf, f, ectp_get_skipcount(buf, f) + ECTP_FWDMSG_SZ)

---------------------------------------------------------------------------
\* Message accessors.  m is the index of the message's first byte.

ectp_get_msg_type(buf, m) == ectp_ntohs(LoadU16(buf, m))

ectp_set_msg_type(buf, m, msg_type) == StoreU16(buf, m, ectp_htons(msg_type))

ectp_fwdaddr_ok(fwdaddr) == IF BitAnd(fwdaddr[0], 1) = 0 THEN TRUE ELSE FALSE

ectp_get_fwdaddr(buf, m) == [j \in 0 .. (ETH_ALEN - 1) |-> Peek(buf, m + fwdaddr_off + j)]

ectp_set_fwdaddr(buf, m, fwdaddr) == memcpy(buf, m + fwdaddr_off, fwdaddr, 0, ETH_ALEN)

ectp_set_fwdmsg(buf, m, fwdaddr) ==
    ectp_set_fwdaddr(ectp_set_msg_type(buf, m, ECTP_FWDMSG), m, fwdaddr)

ectp_set_rplymsg_rcpt_num(buf, m, rcpt_num) == StoreU16(buf, m + rcpt_num_off, rcpt_num)

ectp_set_rplymsg_hdr_notoken(buf, m, rcpt_num) == ectp_set_msg_type(buf, m, ECTP_RPLYMSG)
ectp_set_rplymsg_hdr(buf, m, rcpt_num) ==
    ectp_set_rplymsg_rcpt_num(ectp_set_msg_type(buf, m, ECTP_RPLYMSG), m, rcpt_num)

ectp_set_rplymsg_data(buf, m, data, data_size) ==
    memcpy(buf, m + data_off, data, 0, data_size)

---------------------------------------------------------------------------
\* Frame sizer.

ectp_calc_frame_size(num_fwdmsgs, payload_size) ==
    ECTP_FRAME_HDR_SZ + (num_fwdmsgs * ECTP_FWDMSG_SZ)
        + ECTP_REPLYMSG_MINSZ + payload_size

---------------------------------------------------------------------------
\* Frame builder.  A builder state bb holds ectp_build_frame's locals, the
\* caller's buffer, and a record of what the call touched:
\*   log        one entry per field stage that ran: where it wrote, how many
\*              bytes, and the field's full size
\*   data_read  the number of leading bytes of data the call has read
\*   fwd_read   the indices of the forward addresses the call has read

Max(x, y) == IF x >= y THEN x ELSE y

Entry(stage, num, at, n, full) ==
    [stage |-> stage, num |-> num, at |-> at, n |-> n, full |-> full]

\* what the caller's buffer and the uninitialised locals hold when the call begins
BuildInit(inp, stale) ==
    [pc |-> "entry",
     frame_buf |-> [x \in 0 .. (inp.frame_buf_size - 1) |-> stale],
     frame_idx |-> 0,
     tmp_buf |-> [x \in 0 .. (ECTP_FWDMSG_SZ - 1) |-> Garbage],
     buf_bytes_left |-> inp.frame_buf_size,
     i |-> Garbage,
     fwdaddr |-> Garbage,
     log |-> <<>>,
     data_read |-> 0,
     fwd_read |-> {}]

\* element e of the caller's fwdaddrs array
FwdAddrAt(inp, e) ==
    IF e \in DOMAIN inp.fwdaddrs THEN inp.fwdaddrs[e]
    ELSE [j \in 0 .. (ETH_ALEN - 1) |-> Garbage]

\* if (frame_buf_size == 0) goto out; memset(frame_buf, filler, frame_buf_size);
BuildEntry(bb, inp) ==
    IF inp.frame_buf_size = 0 THEN [bb EXCEPT !.pc = "out"]
    ELSE [bb EXCEPT !.frame_buf = memset(@, inp.filler, inp.frame_buf_size),
                    !.pc = "hdr"]

\* the skipcount header; on success also fwdaddr = fwdaddrs; i = 1;
BuildHdr_NoStop(bb, inp) ==
    IF bb.buf_bytes_left > ECTP_FRAME_HDR_SZ
    THEN [bb EXCEPT
            !.frame_buf = ectp_set_skipcount(@, bb.frame_idx, inp.skipcount),
            !.frame_idx = @ + ECTP_FRAME_HDR_SZ,
            !.buf_bytes_left = @ - ECTP_FRAME_HDR_SZ,
            !.fwdaddr = 0,
            !.i = 1,
            !.log = Append(@, Entry("hdr", 0, bb.frame_idx, ECTP_FRAME_HDR_SZ,
                                    ECTP_FRAME_HDR_SZ)),
            !.pc = "fwd"]
    ELSE LET t == ectp_set_skipcount(bb.tmp_buf, 0, inp.skipcount)
         IN  [bb EXCEPT
                !.tmp_buf = t,
                !.frame_buf = memcpy(@, 0, t, 0, inp.frame_buf_size),
                !.frame_idx = @ + inp.frame_buf_size,
                !.fwdaddr = 0,
                !.i = 1,
                !.log = Append(@, Entry("hdr", 0, 0, inp.frame_buf_size,
                                        ECTP_FRAME_HDR_SZ)),
                !.pc = "fwd"]
BuildHdr(bb, inp) ==
    IF bb.buf_bytes_left > ECTP_FRAME_HDR_SZ
    THEN [bb EXCEPT
            !.frame_buf = ectp_set_skipcount(@, bb.frame_idx, inp.skipcount),
            !.frame_idx = @ + ECTP_FRAME_HDR_SZ,
            !.buf_bytes_left = @ - ECTP_FRAME_HDR_SZ,
            !.fwdaddr = 0,
            !.i = 1,
            !.log = Append(@, Entry("hdr", 0, bb.frame_idx, ECTP_FRAME_HDR_SZ,
                                    ECTP_FRAME_HDR_SZ)),
            !.pc = "fwd"]
    ELSE LET t == ectp_set_skipcount(bb.tmp_buf, 0, inp.skipcount)
         IN  [bb EXCEPT
                !.tmp_buf = t,
                !.frame_buf = memcpy(@, 0, t, 0, inp.frame_buf_size),
                !.log = Append(@, Entry("hdr", 0, 0, inp.frame_buf_size,
                                        ECTP_FRAME_HDR_SZ)),
                !.pc = "out"]

\* while ((i <= num_fwdaddrs) && buf_bytes_left)
FwdLoopCond(bb, inp) == (bb.i <= inp.num_fwdaddrs) /\ (bb.buf_bytes_left # 0)

\* one iteration of the forward message loop
BuildFwd_NoRoomCheck(bb, inp) ==
    [bb EXCEPT
        !.frame_buf = ectp_set_fwdmsg(@, bb.frame_idx, FwdAddrAt(inp, bb.fwdaddr)),
        !.fwd_read = @ \cup {bb.fwdaddr},
        !.fwdaddr = @ + 1,
        !.frame_idx = @ + ECTP_FWDMSG_SZ,
        !.buf_bytes_left = IF @ >= ECTP_FWDMSG_SZ THEN @ - ECTP_FWDMSG_SZ ELSE 0,
        !.i = @ + 1,
        !.log = Append(@, Entry("fwd", bb.i, bb.frame_idx, ECTP_FWDMSG_SZ,
                                ECTP_FWDMSG_SZ))]
BuildFwd(bb, inp) ==
    IF bb.buf_bytes_left >= ECTP_FWDMSG_SZ
    THEN [bb EXCEPT
            !.frame_buf = ectp_set_fwdmsg(@, bb.frame_idx, FwdAddrAt(inp, bb.fwdaddr)),
            !.fwd_read = @ \cup {bb.fwdaddr},
            !.fwdaddr = @ + 1,
            !.frame_idx = @ + ECTP_FWDMSG_SZ,
            !.buf_bytes_left = @ - ECTP_FWDMSG_SZ,
            !.i = @ + 1,
            !.log = Append(@, Entry("fwd", bb.i, bb.frame_idx, ECTP_FWDMSG_SZ,
                                    ECTP_FWDMSG_SZ))]
    ELSE LET t == ectp_set_fwdmsg(bb.tmp_buf, 0, FwdAddrAt(inp, bb.fwdaddr))
         IN  [bb EXCEPT
                !.tmp_buf = t,
                !.fwd_read = @ \cup {bb.fwdaddr},
                !.frame_buf = memcpy(@, bb.frame_idx, t, 0, bb.buf_bytes_left),
                !.buf_bytes_left = 0,
                !.log = Append(@, Entry("fwd", bb.i, bb.frame_idx, bb.buf_bytes_left,
                                        ECTP_FWDMSG_SZ))]

\* the loop condition failed; if (!buf_bytes_left) goto out;
BuildFwdDone(bb, inp) ==
    IF bb.buf_bytes_left = 0 THEN [bb EXCEPT !.pc = "out"]
    ELSE [bb EXCEPT !.pc = "rply"]

\* the reply message header
BuildRplyHdr_NoPartial(bb, inp) ==
    IF bb.buf_bytes_left > ECTP_REPLYMSG_MINSZ
    THEN [bb EXCEPT
            !.frame_buf = ectp_set_rplymsg_hdr(@, bb.frame_idx, inp.rcpt_num),
            !.buf_bytes_left = @ - ECTP_REPLYMSG_MINSZ,
            !.log = Append(@, Entry("rply", 0, bb.frame_idx, ECTP_REPLYMSG_MINSZ,
                                    ECTP_REPLYMSG_MINSZ)),
            !.pc = "data"]
    ELSE [bb EXCEPT
            !.log = Append(@, Entry("rply", 0, bb.frame_idx, 0, ECTP_REPLYMSG_MINSZ)),
            !.pc = "out"]
BuildRplyHdr(bb, inp) ==
    IF bb.buf_bytes_left > ECTP_REPLYMSG_MINSZ
    THEN [bb EXCEPT
            !.frame_buf = ectp_set_rplymsg_hdr(@, bb.frame_idx, inp.rcpt_num),
            !.buf_bytes_left = @ - ECTP_REPLYMSG_MINSZ,
            !.log = Append(@, Entry("rply", 0, bb.frame_idx, ECTP_REPLYMSG_MINSZ,
                                    ECTP_REPLYMSG_MINSZ)),
            !.pc = "data"]
    ELSE LET t == ectp_set_rplymsg_hdr(bb.tmp_buf, 0, inp.rcpt_num)
         IN  [bb EXCEPT
                !.tmp_buf = t,
                !.frame_buf = memcpy(@, bb.frame_idx, t, 0, bb.buf_bytes_left),
                !.log = Append(@, Entry("rply", 0, bb.frame_idx, bb.buf_bytes_left,
                                        ECTP_REPLYMSG_MINSZ)),
                !.pc = "out"]

\* the reply message data
BuildRplyData(bb, inp) ==
    IF bb.buf_bytes_left >= inp.data_size
    THEN [bb EXCEPT
            !.frame_buf = ectp_set_rplymsg_data(@, bb.frame_idx, inp.data, inp.data_size),
            !.data_read = Max(@, inp.data_size),
            !.log = Append(@, Entry("data", 0, bb.frame_idx + data_off, inp.data_size,
                                    inp.data_size)),
            !.pc = "out"]
    ELSE IF bb.buf_bytes_left > 0
    THEN [bb EXCEPT
            !.frame_buf = ectp_set_rplymsg_data(@, bb.frame_idx, inp.data,
                                                bb.buf_bytes_left),
            !.data_read = Max(@, bb.buf_bytes_left),
            !.log = Append(@, Entry("data", 0, bb.frame_idx + data_off,
                                    bb.buf_bytes_left, inp.data_size)),
            !.pc = "out"]
    ELSE [bb EXCEPT !.pc = "out"]

\* the statement the call executes next
BuildStep(bb, inp) ==
    CASE bb.pc = "entry" -> BuildEntry(bb, inp)
      [] bb.pc = "hdr" -> BuildHdr(bb, inp)
      [] bb.pc = "fwd" -> IF FwdLoopCond(bb, inp) THEN BuildFwd(bb, inp)
                          ELSE BuildFwdDone(bb, inp)
      [] bb.pc = "rply" -> BuildRplyHdr(bb, inp)
      [] bb.pc = "data" -> BuildRplyData(bb, inp)
      [] OTHER -> bb

\* the call run to its return
RECURSIVE BuildRun(_, _)
BuildRun(bb, inp) ==
    IF bb.pc = "out" THEN bb ELSE BuildRun(BuildStep(bb, inp), inp)

\* the buffer ectp_build_frame leaves
ectp_build_frame(inp, stale) == BuildRun(BuildInit(inp, stale), inp).frame_buf

---------------------------------------------------------------------------
\* Bounds of the model.

MaxFwd == 2
MaxData == 4
MaxWalk == 3
MaxChk == 24

\* Inputs.

Hosts == {"LE", "BE"}

\* a skipcount of 0, and one that does not fit the 16-bit field (0x10108)
SkipVals == {0, U16 + 264}

\* a unicast and a multicast hardware address
Addrs == {[j \in 0 .. (ETH_ALEN - 1) |-> 16 + j], [j \in 0 .. (ETH_ALEN - 1) |-> 161 + j]}

FwdLists == UNION {[0 .. (k - 1) -> Addrs] : k \in 0 .. MaxFwd}

RcptVals == {772}

DataBufs == {[j \in 0 .. (p - 1) |-> 208 + j] : p \in 0 .. MaxData}

Fillers == {0, 238}

StaleBytes == {90}

RefStale == CHOOSE s \in StaleBytes : TRUE

BuildArgs(sk, fl, rn, d, cap, fill) ==
    [skipcount |-> sk, fwdaddrs |-> fl, num_fwdaddrs |-> Cardinality(DOMAIN fl),
     rcpt_num |-> rn, data |-> d, data_size |-> Cardinality(DOMAIN d),
     frame_buf_size |-> cap, filler |-> fill]

\* the size of the complete frame for the arguments inp
FullSize(inp) == ectp_calc_frame_size(inp.num_fwdaddrs, inp.data_size)

ChkIdle == [state |-> "idle", skipcount |-> 0, frme_len |-> 0, ok |-> FALSE, msg |-> Garbage]

---------------------------------------------------------------------------
\* The builder called on every combination of inputs and capacities, one
\* statement group at a time, followed by a walk of the chain.

Init ==
    /\ host \in Hosts
    /\ \E sk \in SkipVals, fl \in FwdLists, rn \in RcptVals, d \in DataBufs, fill \in Fillers :
         \E cap \in 0 .. (ectp_calc_frame_size(Cardinality(DOMAIN fl), Cardinality(DOMAIN d)) + 1) :
            args = BuildArgs(sk, fl, rn, d, cap, fill)
    /\ \E s \in StaleBytes : b = BuildInit(args, s)
    /\ op = "build"
    /\ prev = << >>
    /\ arg = 0
    /\ pos = 0
    /\ walk = 0
    /\ chk = ChkIdle

StepEntry ==
    /\ b.pc = "entry"
    /\ b' = BuildEntry(b, args)
    /\ UNCHANGED <<host, args, op, prev, arg, pos, walk, chk>>

StepHdr ==
    /\ b.pc = "hdr"
    /\ b' = BuildHdr(b, args)
    /\ UNCHANGED <<host, args, op, prev, arg, pos, walk, chk>>

StepFwd ==
    /\ b.pc = "fwd"
    /\ FwdLoopCond(b, args)
    /\ b' = BuildFwd(b, args)
    /\ UNCHANGED <<host, args, op, prev, arg, pos, walk, chk>>

StepFwdDone ==
    /\ b.pc = "fwd"
    /\ ~FwdLoopCond(b, args)
    /\ b' = BuildFwdDone(b, args)
    /\ UNCHANGED <<host, args, op, prev, arg, pos, walk, chk>>

StepRplyHdr ==
    /\ b.pc = "rply"
    /\ b' = BuildRplyHdr(b, args)
    /\ UNCHANGED <<host, args, op, prev, arg, pos, walk, chk>>

StepRplyData ==
    /\ b.pc = "data"
    /\ b' = BuildRplyData(b, args)
    /\ UNCHANGED <<host, args, op, prev, arg, pos, walk, chk>>

Build == StepEntry \/ StepHdr \/ StepFwd \/ StepFwdDone \/ StepRplyHdr \/ StepRplyData

\* a consumer advances the skipcount of the built frame (the frame holds a header)
Walk ==
    /\ b.pc = "out"
    /\ op \in {"build", "inc"}
    /\ args.frame_buf_size >= ECTP_FRAME_HDR_SZ
    /\ walk < MaxWalk
    /\ prev' = b.frame_buf
    /\ b' = [b EXCEPT !.frame_buf = ectp_inc_skipcount(@, 0)]
    /\ op' = "inc"
    /\ walk' = walk + 1
    /\ UNCHANGED <<host, args, arg, pos, chk>>

Next == StepEntry \/ StepHdr \/ StepFwd \/ StepFwdDone \/ StepRplyHdr \/ StepRplyData \/ Walk

Spec == Init /\ [][Next]_vars

\* ectp_build_frame is straight-line code and a loop: it keeps executing
FairSpec == Init /\ [][Next]_vars /\ WF_vars(Build)

---------------------------------------------------------------------------
\* The accessors applied to a received frame, for every 16-bit argument.

WireArgs ==
    BuildArgs(0, [e \in 0 .. 0 |-> [j \in 0 .. (ETH_ALEN - 1) |-> 16 + j]], 772,
              [j \in 0 .. 1 |-> 208 + j], ectp_calc_frame_size(1, 2), 238)

\* where the messages of that frame start
MsgPositions == {ectp_get_msg_ptr(0, 0), ectp_get_msg_ptr(ECTP_FWDMSG_SZ, 0)}

InitWire ==
    /\ host \in Hosts
    /\ args = WireArgs
    /\ b = BuildRun(BuildInit(args, RefStale), args)
    /\ op = "recv"
    /\ prev = << >>
    /\ arg \in 0 .. (U16 - 1)
    /\ pos = 0
    /\ walk = 0
    /\ chk = ChkIdle

CallSetSkipcount ==
    /\ op = "recv"
    /\ prev' = b.frame_buf
    /\ b' = [b EXCEPT !.frame_buf = ectp_set_skipcount(@, 0, arg)]
    /\ op' = "set"
    /\ UNCHANGED <<host, args, arg, pos, walk, chk>>

CallIncSkipcount ==
    /\ op = "set"
    /\ prev' = b.frame_buf
    /\ b' = [b EXCEPT !.frame_buf = ectp_inc_skipcount(@, 0)]
    /\ op' = "inc"
    /\ UNCHANGED <<host, args, arg, pos, walk, chk>>

CallSetMsgType ==
    /\ op = "recv"
    /\ \E m \in MsgPositions :
        /\ pos' = m
        /\ b' = [b EXCEPT !.frame_buf = ectp_set_msg_type(@, m, arg)]
    /\ prev' = b.frame_buf
    /\ op' = "settype"
    /\ UNCHANGED <<host, args, arg, walk, chk>>

NextWire == CallSetSkipcount \/ CallIncSkipcount \/ CallSetMsgType

SpecWire == InitWire /\ [][NextWire]_vars

---------------------------------------------------------------------------
\* The skipcount check, then the message lookup a consumer makes once it passed.

ChkSkipcounts == (0 .. MaxChk) \cup {U16 - 8, U16 - 1, U16, 2147483640, 2147483647}
ChkLens == (0 .. MaxChk) \cup {U16, 2147483647}

InitChk ==
    /\ host \in Hosts
    /\ args = WireArgs
    /\ b = BuildRun(BuildInit(args, RefStale), args)
    /\ op = "recv"
    /\ prev = << >>
    /\ arg = 0
    /\ pos = 0
    /\ walk = 0
    /\ \E sc \in ChkSkipcounts, len \in ChkLens :
         chk = [ChkIdle EXCEPT !.state = "args", !.skipcount = sc, !.frme_len = len]

CallBasicChk ==
    /\ chk.state = "args"
    /\ chk' = [chk EXCEPT !.ok = ectp_skipc_basicchk_ok(chk.skipcount, chk.frme_len),
                          !.state = "checked"]
    /\ UNCHANGED <<host, args, b, op, prev, arg, pos, walk>>

CallGetMsgPtr ==
    /\ chk.state = "checked"
    /\ chk.ok
    /\ chk' = [chk EXCEPT !.msg = ectp_get_msg_ptr(chk.skipcount, 0), !.state = "deref"]
    /\ UNCHANGED <<host, args, b, op, prev, arg, pos, walk>>

NextChk == CallBasicChk \/ CallGetMsgPtr

SpecChk == InitChk /\ [][NextChk]_vars

---------------------------------------------------------------------------
\* Properties.

Last(L) == L[Len(L)]

RECURSIVE SumN(_)
SumN(L) == IF L = << >> THEN 0 ELSE L[1].n + SumN(Tail(L))

\* the stages of a build, in the order the frame lays them out
StageOrder(inp) ==
    << <<"hdr", 0>> >> \o [q \in 1 .. inp.num_fwdaddrs |-> <<"fwd", q>>]
        \o << <<"rply", 0>>, <<"data", 0>> >>

\* the call under way is a build that returned, and nothing touched the frame since
Built == b.pc = "out" /\ op = "build"

Truncated == 0 < args.frame_buf_size /\ args.frame_buf_size < FullSize(args)

\* C1: a build into a capacity c with 0 < c < ectp_calc_frame_size(k, p) leaves
\* exactly the first c bytes that the same build leaves at the full capacity,
\* and the last field written ends at byte c (the field spanning the cut gives
\* its leading bytes up to c).
C1_TruncatedIsPrefix ==
    (Built /\ Truncated) =>
        LET c == args.frame_buf_size
            ref == ectp_build_frame([args EXCEPT !.frame_buf_size = FullSize(args)],
                                    RefStale)
        IN  /\ DOMAIN b.frame_buf = 0 .. (c - 1)
            /\ DOMAIN ref = 0 .. (FullSize(args) - 1)
            /\ \A x \in 0 .. (c - 1) : b.frame_buf[x] = ref[x]
            /\ b.log # << >>
            /\ Last(b.log).at + Last(b.log).n = c

\* the cut falls inside the reply header, after two forward messages
C1_Witness ==
    /\ Built /\ Truncated
    /\ args.num_fwdaddrs = 2
    /\ Last(b.log).stage = "rply"
    /\ 0 < Last(b.log).n /\ Last(b.log).n < Last(b.log).full

\* C2: at every capacity the build stores only at indices below the capacity,
\* reads only the first data_size bytes of data and only the first
\* num_fwdaddrs forward addresses; at capacity 0 it stores nothing.
C2_InBounds ==
    /\ DOMAIN b.frame_buf \subseteq 0 .. (args.frame_buf_size - 1)
    /\ \A q \in 1 .. Len(b.log) :
          b.log[q].at >= 0 /\ b.log[q].at + b.log[q].n <= args.frame_buf_size
    /\ b.data_read <= args.data_size
    /\ b.fwd_read \subseteq 0 .. (args.num_fwdaddrs - 1)
    /\ (args.frame_buf_size = 0 => (DOMAIN b.frame_buf = {} /\ b.log = << >>))
    /\ \A x \in DOMAIN b.frame_buf : b.frame_buf[x] \in Byte

\* a capacity that is not field aligned cut a forward message short
C2_Witness ==
    /\ Built
    /\ b.log # << >>
    /\ Last(b.log).stage = "fwd"
    /\ 0 < Last(b.log).n /\ Last(b.log).n < ECTP_FWDMSG_SZ
    /\ b.fwd_read # {}

\* C3: at capacity exactly ectp_calc_frame_size(k, p) the buffer holds the
\* skipcount in bytes 0..1, forward message i (type, then address i) at byte
\* 2 + 8i, the reply type and receipt number at 2 + 8k, then the p data bytes;
\* these fields cover the buffer and no byte depends on the filler.
C3_ExactLayout ==
    (Built /\ args.frame_buf_size = FullSize(args)) =>
        LET fb == b.frame_buf
            k == args.num_fwdaddrs
            r == ECTP_FRAME_HDR_SZ + k * ECTP_FWDMSG_SZ
        IN  /\ FullSize(args) = ECTP_FRAME_HDR_SZ + k * ECTP_FWDMSG_SZ
                                  + ECTP_REPLYMSG_MINSZ + args.data_size
            /\ DOMAIN fb = 0 .. (r + ECTP_REPLYMSG_MINSZ + args.data_size - 1)
            /\ ectp_get_skipcount(fb, 0) = args.skipcount % U16
            /\ \A e \in 0 .. (k - 1) :
                 LET m == ECTP_FRAME_HDR_SZ + e * ECTP_FWDMSG_SZ
                 IN  /\ ectp_get_msg_type(fb, m) = ECTP_FWDMSG
                     /\ ectp_get_fwdaddr(fb, m) = args.fwdaddrs[e]
            /\ ectp_get_msg_type(fb, r) = ECTP_RPLYMSG
            /\ LoadU16(fb, r + rcpt_num_off) = args.rcpt_num
            /\ \A j \in 0 .. (args.data_size - 1) :
                 fb[r + ECTP_REPLYMSG_MINSZ + j] = args.data[j]
            /\ \A f \in {17, 255} :
                 ectp_build_frame([args EXCEPT !.filler = f], RefStale) = fb

\* two forward messages and four data bytes at the exact capacity
C3_Witness ==
    /\ Built
    /\ args.num_fwdaddrs = 2 /\ args.data_size = 4
    /\ args.frame_buf_size = FullSize(args)
    /\ Len(b.log) = 5

\* C4: ectp_skipc_basicchk_ok(skipcount, len) is true exactly when skipcount is
\* a multiple of ECTP_FWDMSG_SZ and skipcount < len.
C4_ChkIffMultipleAndBelow ==
    (chk.state \in {"checked", "deref"}) =>
        (chk.ok <=> ((chk.skipcount % ECTP_FWDMSG_SZ = 0) /\ (chk.skipcount < chk.frme_len)))

\* the check accepted a nonzero skipcount
C4_Witness ==
    /\ chk.state = "checked"
    /\ chk.ok
    /\ chk.skipcount = 2 * ECTP_FWDMSG_SZ

\* C5: in a complete frame built with skipcount 0 and k forward addresses,
\* after j <= k calls of ectp_inc_skipcount the skipcount is 8j and passes the
\* basic check; the current message is forward message j (address j) when
\* j < k and the reply message when j = k.
C5_WalkFollowsChain ==
    (/\ b.pc = "out"
     /\ op \in {"build", "inc"}
     /\ args.skipcount = 0
     /\ args.frame_buf_size = FullSize(args)
     /\ walk <= args.num_fwdaddrs) =>
        LET fb == b.frame_buf
            sc == ectp_get_skipcount(fb, 0)
            m == ectp_get_curr_msg_ptr(fb, 0)
        IN  /\ sc = ECTP_FWDMSG_SZ * walk
            /\ ectp_skipc_basicchk_ok(sc, args.frame_buf_size)
            /\ m = ECTP_FRAME_HDR_SZ + ECTP_FWDMSG_SZ * walk
            /\ IF walk < args.num_fwdaddrs
               THEN /\ ectp_get_msg_type(fb, m) = ECTP_FWDMSG
                    /\ ectp_get_fwdaddr(fb, m) = args.fwdaddrs[walk]
               ELSE ectp_get_msg_type(fb, m) = ECTP_RPLYMSG

\* the walk stepped over two forward messages and stands on the reply
C5_Witness ==
    /\ b.pc = "out" /\ op = "inc"
    /\ args.skipcount = 0
    /\ args.frame_buf_size = FullSize(args)
    /\ args.num_fwdaddrs = 2
    /\ walk = 2

\* C6 as stated: after ectp_inc_skipcount the skipcount read back is the value
\* read before plus ECTP_FWDMSG_SZ, for every value the field can hold.
C6_IncAddsFwdSz ==
    (op = "inc") =>
        ectp_get_skipcount(b.frame_buf, 0) = ectp_get_skipcount(prev, 0) + ECTP_FWDMSG_SZ

\* C6, amended: after ectp_inc_skipcount the skipcount read back is the value
\* read before plus ECTP_FWDMSG_SZ, reduced modulo 2^16.
C6_IncAddsFwdSzMod16 ==
    (op = "inc") =>
        ectp_get_skipcount(b.frame_buf, 0)
            = (ectp_get_skipcount(prev, 0) + ECTP_FWDMSG_SZ) % U16

\* the field wrapped: it held a value within ECTP_FWDMSG_SZ of 65535
C6_Witness ==
    /\ op = "inc"
    /\ ectp_get_skipcount(prev, 0) >= U16 - ECTP_FWDMSG_SZ
    /\ ectp_get_skipcount(b.frame_buf, 0) < ECTP_FWDMSG_SZ

\* C7 as stated: the skipcount and the message type are big-endian on the
\* wire (high-order byte first) on both hosts.
C7_BigEndianWire ==
    /\ (op = "set") =>
          (b.frame_buf[0] = arg \div U8 /\ b.frame_buf[1] = arg % U8)
    /\ (op = "settype") => (b.frame_buf[pos] = arg \div U8)

\* C7, amended: the skipcount and the message type are little-endian on the
\* wire (low-order byte first, high-order byte second) on both hosts.
C7_LittleEndianWire ==
    /\ (op = "set") =>
          (b.frame_buf[0] = arg % U8 /\ b.frame_buf[1] = arg \div U8)
    /\ (op = "settype") =>
          (b.frame_buf[pos] = arg % U8 /\ b.frame_buf[pos + 1] = arg \div U8)

\* a big-endian host wrote the forward type code
C7_Witness ==
    /\ op = "settype"
    /\ host = "BE"
    /\ arg = ECTP_FWDMSG
    /\ pos = ECTP_FRAME_HDR_SZ

\* C8, the stages: the stages run in frame order, each writes where the
\* previous one stopped, a stage writes a byte only if every earlier stage
\* wrote its full size, and when the build has returned every byte past the
\* last one written still holds the filler.
C8_Stages ==
    LET L == b.log
    IN  /\ Len(L) <= args.num_fwdaddrs + 3
        /\ \A q \in 1 .. Len(L) :
              /\ <<L[q].stage, L[q].num>> = StageOrder(args)[q]
              /\ L[q].at = SumN(SubSeq(L, 1, q - 1))
              /\ L[q].n <= L[q].full
              /\ (L[q].n >= 1) => \A r \in 1 .. (q - 1) : L[r].n = L[r].full
        /\ Built =>
              \A x \in DOMAIN b.frame_buf : (x >= SumN(L)) => b.frame_buf[x] = args.filler

C8_Done == b.pc = "out"

\* C8: the build is one pass through header, forward messages, reply header
\* and reply data that obeys C8_Stages throughout and always returns.
C8_StagedPass == [] C8_Stages /\ <> C8_Done

\* the pass ended in the reply data, cut short, with filler left behind it
C8_Witness ==
    /\ Built
    /\ b.log # << >>
    /\ Last(b.log).stage = "data"
    /\ 0 < Last(b.log).n /\ Last(b.log).n < Last(b.log).full
    /\ args.num_fwdaddrs = 2

\* C9: for every 16-bit v on both hosts, ectp_ntohs(ectp_htons(v)) = v,
\* ectp_get_skipcount after ectp_set_skipcount(v) returns v, and the set
\* changes no byte of the frame outside the 2-byte header.
C9_SetGetRoundTrip ==
    /\ ectp_ntohs(ectp_htons(arg)) = arg
    /\ (op = "set") =>
          /\ ectp_get_skipcount(b.frame_buf, 0) = arg
          /\ DOMAIN b.frame_buf = DOMAIN prev
          /\ \A x \in DOMAIN prev : (x >= ECTP_FRAME_HDR_SZ) => b.frame_buf[x] = prev[x]

\* a big-endian host stored a value whose two bytes differ
C9_Witness ==
    /\ op = "set"
    /\ host = "BE"
    /\ arg = 258
    /\ b.frame_buf # prev

\* C10: whenever the basic check accepts (skipcount, len), with len at least
\* ECTP_REPLYMSG_MINSZ as the check assumes, the message the lookup returns has its minimal ECTP_REPLYMSG_MINSZ bytes, type included,
\* inside bytes [0, len) of the frame.
C10_AcceptedMessageInsideFrame ==
    (chk.state = "deref" /\ chk.frme_len >= ECTP_REPLYMSG_MINSZ) =>
        /\ chk.msg + ECTP_FRAME_HDR_SZ <= chk.frme_len
        /\ chk.msg + ECTP_REPLYMSG_MINSZ <= chk.frme_len

====
